---------------------------- MODULE Spec2Model ----------------------------
(***************************************************************************)
(* Tool-call execution engine of the multi-agent framework.                *)
(*                                                                         *)
(* One CustomAgent object serving requests (ainvoke) one after the other.  *)
(* Two orchestration paths exist in the code:                              *)
(*   - "langchain" providers (OpenAIProvider, ClaudeProvider): one model   *)
(*     call; a response with tool_calls is handled by the agent            *)
(*     (_ahandle_structured_tool_calls), sequentially or with              *)
(*     asyncio.gather;                                                     *)
(*   - "bedrock" (BedrockBearerProvider.ainvoke_with_tools): the provider  *)
(*     runs the multi-round loop on a working copy of the history.         *)
(*                                                                         *)
(* Text is a sequence of string tokens; f-strings are concatenations, the  *)
(* empty string is the empty sequence.                                     *)
(***************************************************************************)
EXTENDS Naturals, Sequences, FiniteSets

VARIABLES
    config,            \* the agent's configuration (self.config, provider)
    stored,            \* the conversation file of self.conversation_id
    history,           \* self.conversation_history
    pc,                \* where the current ainvoke stands
    invokes,           \* number of ainvoke calls started on this agent
    calls,             \* model invocations made for the current request
    last_model,        \* the last response the model provider produced
    response,          \* the value ainvoke returned
    managed,           \* self._conversation_managed_by_provider
    tool_calls_made,   \* self.tool_calls_made
    batch,             \* tool_calls of the response being handled
    status,            \* per call of batch: "pending" | "running" | "done"
    outcomes,          \* per call of batch: what its execution did
    results,           \* per call of batch: result_info (gather's slots)
    tool_messages,     \* tool_messages of the execution operation
    tool_results,      \* tool_results (display texts) of the operation
    working_messages,  \* working_messages of the provider loop
    iteration,         \* iteration of the provider loop
    mode,              \* how the batch is executed
    finished,          \* the calls of batch in their order of completion
    events,            \* events broadcast since the last model call began
    publishing,        \* what a broadcast attempt of the current round does
    active_streams,    \* router.active_streams: conversation id -> stream
    streams,           \* the ToolCallStream objects, by object identity
    subscribers,       \* the running get_events generators
    tasks,             \* send_event tasks created and not yet run
    now,               \* time.time(), in seconds
    next_sweep,        \* when cleanup_inactive_streams wakes up (0: not started)
    published,         \* per conversation: events handed to the broadcast
    subscribed,        \* conversations a subscriber ever attached to
    raised,            \* conversations for which a broadcast raised
    requests,          \* the chat requests of one conversation being handled
    cleanup_tasks      \* number of cleanup_inactive_streams tasks alive

vars == <<config, stored, history, pc, invokes, calls, last_model, response,
          managed, tool_calls_made, batch, status, outcomes, results,
          tool_messages, tool_results, working_messages, iteration,
          mode, finished, events, publishing, active_streams, streams,
          subscribers, tasks, now, next_sweep, published, subscribed, raised,
          requests, cleanup_tasks>>

agentVars == <<config, stored, history, pc, invokes, calls, last_model,
               response, managed, tool_calls_made, batch, status, outcomes,
               results, tool_messages, tool_results, working_messages,
               iteration, mode, finished, events, publishing>>

routerVars == <<active_streams, streams, subscribers, tasks, now, next_sweep,
                published, subscribed, raised, cleanup_tasks>>

-----------------------------------------------------------------------------
(* Bounds of the model *)

\* Largest number of tool calls in one model response.
MaxCalls == 3

\* Number of requests (ainvoke) served by the agent.
MaxInvokes == 2

\* A further request is made only while the history is at most this long.
MaxHistory == 8

-----------------------------------------------------------------------------
(* Program constants *)

\* max_iterations of the provider loop.
max_iterations == 20

\* config.get('max_parallel_tools', 2)
max_parallel_tools == 2

\* asyncio's default ThreadPoolExecutor behind run_in_executor(None, ...):
\* min(32, cpu_count + 4) workers, at least 5.
executor_workers == 5


-----------------------------------------------------------------------------
(* Messages (langchain_core.messages) *)

\* tool_call_id of a message that is no ToolMessage.
NoId == <<>>

SystemMessage(content) ==
    [role |-> "system", content |-> content, tool_calls |-> <<>>,
     tool_call_id |-> NoId]

HumanMessage(content) ==
    [role |-> "user", content |-> content, tool_calls |-> <<>>,
     tool_call_id |-> NoId]

AIMessage(content, calls_) ==
    [role |-> "assistant", content |-> content, tool_calls |-> calls_,
     tool_call_id |-> NoId]

ToolMessage(content, id) ==
    [role |-> "tool", content |-> content, tool_calls |-> <<>>,
     tool_call_id |-> id]

\* message.__class__.__name__
ClassName(m) ==
    CASE m.role = "system" -> "SystemMessage"
      [] m.role = "user" -> "HumanMessage"
      [] m.role = "assistant" -> "AIMessage"
      [] OTHER -> "ToolMessage"

-----------------------------------------------------------------------------
(* Conversation persistence (ConversationManager) *)

\* One msg_data entry: the type, the content, and tool_calls for an AIMessage
\* that has some.  A ToolMessage keeps only type and content.
MsgData(m) ==
    [type |-> ClassName(m), content |-> m.content,
     tool_calls |-> IF m.role = "assistant" THEN m.tool_calls ELSE <<>>]

SaveConversation(messages) ==
    [i \in 1..Len(messages) |-> MsgData(messages[i])]

\* Rebuilds Human, AI and System messages from type and content; any other
\* type is skipped, and tool_calls are not read back.
RECURSIVE LoadConversation(_)
LoadConversation(file) ==
    IF file = <<>> THEN <<>>
    ELSE LET d == Head(file)
             rest == LoadConversation(Tail(file))
         IN  CASE d.type = "HumanMessage" -> <<HumanMessage(d.content)>> \o rest
               [] d.type = "AIMessage" -> <<AIMessage(d.content, <<>>)>> \o rest
               [] d.type = "SystemMessage" -> <<SystemMessage(d.content)>> \o rest
               [] OTHER -> rest

-----------------------------------------------------------------------------
(* Tools *)

\* Names a model may ask for; "ghost" names no tool.
ToolNames == {"calculator", "ghost"}

\* ToolRegistry._tools after _initialize_default_tools.
RegisteredTools == {"calculator"}

\* What tool.execute(**kwargs) can do: return a result dict with
\* success True, return one with success False and an error, or raise
\* (with a message, or with none).
ToolOutcomes ==
    { [kind |-> "dict", success |-> TRUE, text |-> <<"42">>],
      [kind |-> "dict", success |-> FALSE, text |-> <<"Division by zero">>],
      [kind |-> "raise", success |-> FALSE, text |-> <<"boom">>],
      [kind |-> "raise", success |-> FALSE, text |-> <<>>] }

OkOutcome == [kind |-> "dict", success |-> TRUE, text |-> <<"42">>]

\* Mutant: no lookup failure, an unknown name behaves like a tool.
ExecuteToolWithoutLookup(name, o) == o

\* ToolRegistry.execute_tool(name, **kwargs), given what the tool does.
ExecuteTool(name, o) ==
    IF name \notin RegisteredTools
    THEN [kind |-> "raise", success |-> FALSE,
          text |-> <<"Tool '", name, "' not found">>]
    ELSE o

\* str(result) of a returned result.
Str(o) ==
    <<"{'success': ", IF o.success THEN "True" ELSE "False", ", ">> \o o.text
        \o <<"}">>

\* "\n".join(texts)
RECURSIVE Join(_)
Join(texts) ==
    IF texts = <<>> THEN <<>>
    ELSE IF Len(texts) = 1 THEN texts[1]
    ELSE texts[1] \o <<"\n">> \o Join(Tail(texts))

-----------------------------------------------------------------------------
(* Execution of one tool call *)

\* Mutant: the except branch records the failed call as a success.
AExecuteSingleToolFlagsSuccess(tool_call, o) ==
    LET result == ExecuteTool(tool_call.name, o)
    IN  [tool_call_info |->
            [tool_name |-> tool_call.name, params |-> tool_call.args,
             result |-> IF result.kind = "raise" THEN result.text
                        ELSE Str(result),
             success |-> TRUE],
         tool_message |->
            ToolMessage(IF result.kind = "raise"
                        THEN <<"Error: ">> \o result.text
                        ELSE Str(result), tool_call.id),
         formatted_display |->
            IF result.kind = "raise" THEN <<"**Tool Error**: ">> \o result.text
            ELSE IF result.success
                 THEN <<"**", tool_call.name, "**: ">> \o result.text
                 ELSE <<"**", tool_call.name, " Error**: ">> \o result.text]

\* CustomAgent._aexecute_single_tool: result_info for tool_call, given what
\* the tool does.  A raise inside execute_tool (the tool's own, or the
\* registry's ValueError for an unknown name) takes the except branch.
AExecuteSingleTool(tool_call, o) ==
    LET tool_name == tool_call.name
        result == ExecuteTool(tool_name, o)
    IN  IF result.kind = "raise"
        THEN [tool_call_info |->
                 [tool_name |-> tool_name, params |-> tool_call.args,
                  result |-> result.text, success |-> FALSE],
              tool_message |->
                 ToolMessage(<<"Error: ">> \o result.text, tool_call.id),
              formatted_display |-> <<"**Tool Error**: ">> \o result.text]
        ELSE [tool_call_info |->
                 [tool_name |-> tool_name, params |-> tool_call.args,
                  result |-> Str(result), success |-> TRUE],
              tool_message |-> ToolMessage(Str(result), tool_call.id),
              formatted_display |->
                 IF result.success
                 THEN <<"**", tool_name, "**: ">> \o result.text
                 ELSE <<"**", tool_name, " Error**: ">> \o result.text]

\* Mutant: every configured name counts as a tool.
ResolvedToolsUnfiltered(tools) == {tools[i] : i \in 1..Len(tools)}

\* The names of the tools the agent resolves from its configured list
\* (_aprocess_with_structured_tools: registry.get_tool per name).
ResolvedTools(tools) ==
    {tools[i] : i \in {j \in 1..Len(tools) : tools[j] \in RegisteredTools}}

\* The provider loop's tool_result for one call whose tool is in the bound
\* tools: str(result), or the error text when the tool raises.
BedrockToolResult(tool_call, o) ==
    IF o.kind = "raise"
    THEN <<"Error executing tool ", tool_call.name, ": ">> \o o.text
    ELSE Str(o)

\* The provider loop's tool_result for a call whose name is not among the
\* bound tools.
BedrockNotFound(tool_call) == <<"Tool ", tool_call.name, " not found">>

\* The final outcome of the provider loop when max_iterations is reached.
MaxIterationsReached == <<"Error: Maximum tool execution iterations reached">>

\* _ahandle_structured_tool_calls: the text returned for a handled response.
CombineResults(content, displays) ==
    IF displays # <<>>
    THEN IF content # <<>>
         THEN content \o <<"\n\n">> \o Join(displays)
         ELSE Join(displays)
    ELSE IF content # <<>> THEN content ELSE <<"No tool results available.">>

-----------------------------------------------------------------------------
(* What the model provider may answer *)

\* Only the first model call of the first request draws from the full set
\* of responses and tool behaviours; later calls draw from a small one.
Rich == invokes = 1 /\ calls = 1

\* Provider-assigned ids: distinct for every call the model ever requests.
CallId(i) == <<invokes, calls, i>>

\* The tool calls of one response: any name in the first two calls, a
\* registered tool in the calls after them.
ToolBatches ==
    UNION { { [i \in 1..n |-> [id |-> CallId(i), name |-> f[i], args |-> "args"]]
              : f \in {g \in [1..n -> ToolNames] :
                          \A i \in 1..n : i > 2 => g[i] = "calculator"} }
            : n \in 1..MaxCalls }

LeanBatch == << [id |-> CallId(1), name |-> "calculator", args |-> "args"] >>

FinalText == <<"The answer is 42.">>

\* Responses of a model call that succeeds: content and tool_calls.
ModelResponses ==
    IF Rich
    THEN {[content |-> FinalText, tool_calls |-> <<>>]}
           \cup {[content |-> <<>>, tool_calls |-> b] : b \in ToolBatches}
           \cup {[content |-> <<"Let me check.">>, tool_calls |-> LeanBatch]}
    ELSE {[content |-> FinalText, tool_calls |-> <<>>],
          [content |-> <<>>, tool_calls |-> LeanBatch]}

\* What the tool behind a call may do when it is executed: anything for the
\* first call of a response, success or a raise for the calls after it.
OutcomesOf(tool_call) ==
    IF tool_call.name \notin RegisteredTools THEN {OkOutcome}
    ELSE IF ~Rich THEN {OkOutcome}
    ELSE IF tool_call.id[3] = 1 THEN ToolOutcomes
    ELSE {o \in ToolOutcomes : o = OkOutcome \/ o.text = <<"boom">>}

NoResponse == [content |-> <<>>, tool_calls |-> <<>>]

-----------------------------------------------------------------------------
(* Tool-call event streams (api/router.py) *)

\* Events handed to the broadcast per conversation.
MaxEvents == 11

\* The same while time passes.
MaxTimedEvents == 1

\* send_event tasks waiting to run.
MaxPending == 1

\* The clock stops here.
MaxTime == 450

\* The clock is read every so many seconds.
TimeStep == 150

\* asyncio.Queue(maxsize=10)
queue_maxsize == 10

\* asyncio.wait_for(self.queue.get(), timeout=30.0)
wait_timeout == 30

\* time.time() - self.last_activity > 300
idle_threshold == 300

\* await asyncio.sleep(60)
sweep_interval == 60

ConversationIds == {"conv_1", "conv_2"}

\* Identities of the ToolCallStream objects that exist at one time.
StreamIds == {1, 2}

\* The get_events generators that run at one time.
SubscriberIds == {1, 2}

\* No object: what dict.get returns for a missing key.
None == 0

\* A slot of the object store that holds no ToolCallStream.
NoStream ==
    [conversation_id |-> "", queue |-> <<>>, last_activity |-> 0,
     is_active |-> FALSE, killed |-> FALSE, exists |-> FALSE]

\* A generator slot that is not running; last is the type of what the
\* generator yielded last, or "cancelled"; seen is history: the number of
\* the last tool event the running generator has yielded.
NoSubscriber(last) ==
    [stream |-> None, since |-> 0, last |-> last, seen |-> 0]

\* The n-th event broadcast for a conversation.
ToolEvent(conversation_id, n) ==
    [type |-> "tool_execution_start", conversation_id |-> conversation_id,
     n |-> n]

Killed(conversation_id) ==
    [type |-> "conversation_killed", conversation_id |-> conversation_id,
     n |-> 0]

\* The chat requests that may be handled at one time.
ChatIds == {"first", "second", "third"}

\* A request that has not arrived: no agent instance exists for it.
NoRequest == [pc |-> "idle", conversation_history |-> <<>>]

RouterInit ==
    /\ active_streams = [c \in ConversationIds |-> None]
    /\ streams = [s \in StreamIds |-> NoStream]
    /\ subscribers = [g \in SubscriberIds |-> NoSubscriber("none")]
    /\ tasks = <<>>
    /\ now = 0
    /\ next_sweep = 0
    /\ published = [c \in ConversationIds |-> 0]
    /\ subscribed = {}
    /\ raised = {}
    /\ cleanup_tasks = 0

-----------------------------------------------------------------------------
(* Initial state: a constructed agent *)

Configs ==
    { c \in [provider : {"langchain", "bedrock"},
             parallel_execution : BOOLEAN,
             system_prompt : {<<>>, <<"You are helpful.">>},
             tools : {<<>>, <<"calculator">>, <<"ghost">>}] :
        c.provider = "bedrock" => c.parallel_execution }

\* Conversation files the agent may find at construction.
StoredFiles ==
    { <<>>,
      SaveConversation(<<SystemMessage(<<"You are helpful.">>)>>),
      SaveConversation(<<HumanMessage(<<"Hello">>),
                         AIMessage(<<"Hi.">>, <<>>)>>) }

\* BaseModelProvider.supports_tool_calling
SupportsToolCalling(provider) == TRUE

Init ==
    /\ config \in Configs
    /\ stored \in StoredFiles
    /\ history = LoadConversation(stored)
    /\ pc = "idle"
    /\ invokes = 0
    /\ calls = 0
    /\ last_model = NoResponse
    /\ response = <<>>
    /\ managed = FALSE
    /\ tool_calls_made = <<>>
    /\ batch = <<>>
    /\ status = <<>>
    /\ outcomes = <<>>
    /\ results = <<>>
    /\ tool_messages = <<>>
    /\ tool_results = <<>>
    /\ working_messages = <<>>
    /\ iteration = 0
    /\ mode = "none"
    /\ finished = <<>>
    /\ events = <<>>
    /\ publishing = "none"
    /\ requests = [r \in ChatIds |-> NoRequest]
    /\ RouterInit

-----------------------------------------------------------------------------
(* Helpers of the actions *)

NoOutcome == [kind |-> "none", success |-> FALSE, text |-> <<>>]

NoResult ==
    [tool_call_info |-> [tool_name |-> "", params |-> "", result |-> <<>>,
                         success |-> FALSE],
     tool_message |-> ToolMessage(<<>>, NoId),
     formatted_display |-> <<>>]

HasSystemMessage(messages) ==
    \E i \in 1..Len(messages) : messages[i].role = "system"

\* BaseAgent.add_system_message
AddSystemMessage(messages, content) ==
    Append(messages, SystemMessage(content))

\* Mutant: the system prompt is added on every request.
WithPromptAlways(messages, system_prompt, message) ==
    Append(IF system_prompt # <<>>
           THEN AddSystemMessage(messages, system_prompt)
           ELSE messages,
           HumanMessage(message))

\* ainvoke, before the message is processed: the system prompt when it is
\* configured and the history holds no SystemMessage, then the user message.
WithPromptAndUser(messages, system_prompt, message) ==
    Append(IF system_prompt # <<>> /\ ~HasSystemMessage(messages)
           THEN AddSystemMessage(messages, system_prompt)
           ELSE messages,
           HumanMessage(message))

\* _aprocess_message and _aprocess_with_structured_tools: whether the
\* structured path is taken.
Structured ==
    /\ config.tools # <<>>
    /\ SupportsToolCalling(config.provider)
    /\ ResolvedTools(config.tools) # {}

\* Tool invocations that have started and not completed.
InFlight == {i \in DOMAIN status : status[i] = "running"}

Running == CHOOSE i \in DOMAIN status : status[i] = "running"

\* The end of ainvoke: the response becomes an AIMessage unless the provider
\* managed the history; the conversation is saved; the response is returned.
Complete(messages, text, by_provider) ==
    /\ history' = IF by_provider THEN messages
                  ELSE Append(messages, AIMessage(text, <<>>))
    /\ stored' = SaveConversation(history')
    /\ response' = text
    /\ managed' = by_provider
    /\ pc' = "returned"

\* Mutant: results are kept in the order in which the calls complete.
StoreResultInCompletionOrder(slots, i, r) ==
    [slots EXCEPT ![Len(finished) + 1] = r]

\* asyncio.gather keeps one result slot per awaitable, in input order.
StoreResult(slots, i, r) == [slots EXCEPT ![i] = r]

\* The loop over a batch's results: the i-th message, display and call info
\* come from the i-th result.
MessagesOf(slots) == [i \in 1..Len(slots) |-> slots[i].tool_message]
DisplaysOf(slots) == [i \in 1..Len(slots) |-> slots[i].formatted_display]
InfosOf(slots) == [i \in 1..Len(slots) |-> slots[i].tool_call_info]

-----------------------------------------------------------------------------
(* ainvoke up to the first model call *)

Messages == {<<"What is 6*7?">>}

AInvoke(message) ==
    /\ pc \in {"idle", "returned", "raised"}
    /\ invokes < MaxInvokes
    /\ Len(history) <= MaxHistory
    /\ invokes' = invokes + 1
    /\ calls' = 1
    /\ history' = WithPromptAndUser(history, config.system_prompt, message)
    /\ managed' = FALSE
    /\ tool_calls_made' = <<>>
    /\ pc' = IF ~Structured THEN "await_plain"
             ELSE IF config.provider = "bedrock" THEN "bedrock_call"
             ELSE "await_tools"
    /\ working_messages' =
          IF Structured /\ config.provider = "bedrock" THEN history' ELSE <<>>
    /\ iteration' = IF Structured /\ config.provider = "bedrock" THEN 1 ELSE 0
    /\ last_model' = NoResponse
    /\ response' = <<>>
    /\ batch' = <<>>
    /\ status' = <<>>
    /\ outcomes' = <<>>
    /\ results' = <<>>
    /\ tool_messages' = <<>>
    /\ tool_results' = <<>>
    /\ mode' = "none"
    /\ finished' = <<>>
    /\ events' = <<>>
    /\ publishing' = "none"
    /\ UNCHANGED <<requests, routerVars, config, stored>>

\* Mutant: the error of a model call comes back as the value of ainvoke.
ModelErrorReturned == "returned"

\* Where ainvoke ends when a model call raises: nothing between the provider
\* and the caller of ainvoke catches the exception.
ModelErrorOutcome == "raised"

\* A model call raises (provider unavailable, HTTP error, bad JSON): the
\* exception leaves ainvoke.
ModelFails ==
    /\ pc \in {"await_plain", "await_tools", "bedrock_call"}
    /\ pc' = ModelErrorOutcome
    /\ UNCHANGED <<requests, routerVars, events, publishing, config, stored, history,
                   invokes, calls, last_model, response, managed,
                   tool_calls_made, batch, status, outcomes, results,
                   tool_messages, tool_results, working_messages, iteration,
                   mode, finished>>

\* BaseAgent._aprocess_message: one model call without tools.
PlainReturns ==
    /\ pc = "await_plain"
    /\ \E text \in {FinalText} :
          /\ last_model' = [content |-> text, tool_calls |-> <<>>]
          /\ Complete(history, text, FALSE)
    /\ UNCHANGED <<requests, routerVars, events, publishing, config, invokes, calls,
                   tool_calls_made, batch, status, outcomes, results,
                   tool_messages, tool_results, working_messages, iteration,
                   mode, finished>>

-----------------------------------------------------------------------------
(* Agent-managed path: OpenAIProvider / ClaudeProvider *)

\* ainvoke_with_tools returns content only: str(response) is the answer.
StructuredReturnsText ==
    /\ pc = "await_tools"
    /\ \E r \in ModelResponses :
          /\ r.tool_calls = <<>>
          /\ last_model' = r
          /\ Complete(history, r.content, FALSE)
    /\ UNCHANGED <<requests, routerVars, events, publishing, config, invokes, calls,
                   tool_calls_made, batch, status, outcomes, results,
                   tool_messages, tool_results, working_messages, iteration,
                   mode, finished>>

\* Mutant: the assistant turn is not appended before its tools run.
WithoutAssistantTurn(messages, r) == messages

\* The AIMessage with the response's content and tool calls is appended
\* before the tools are executed.
WithAssistantTurn(messages, r) ==
    Append(messages, AIMessage(r.content, r.tool_calls))

\* Mutant: a batch of several calls runs in parallel whatever the policy.
UseParallelAlways(parallel_execution, n) == n > 1

\* if self.parallel_execution and len(tool_calls) > 1
UseParallel(parallel_execution, n) == parallel_execution /\ n > 1

\* ainvoke_with_tools returns {'content', 'tool_calls'}:
\* _ahandle_structured_tool_calls appends the AIMessage and starts executing,
\* with asyncio.gather (tasks created, none started yet) or one by one (the
\* first call started).
StructuredReturnsToolCalls ==
    /\ pc = "await_tools"
    /\ \E r \in ModelResponses :
          /\ r.tool_calls # <<>>
          /\ last_model' = r
          /\ history' = WithAssistantTurn(history, r)
          /\ batch' = r.tool_calls
          /\ LET n == Len(r.tool_calls)
                 parallel == UseParallel(config.parallel_execution, n)
             IN  /\ mode' = IF parallel THEN "parallel" ELSE "sequential"
                 /\ pc' = IF parallel THEN "gather" ELSE "sequential"
                 /\ status' = [i \in 1..n |->
                                 IF ~parallel /\ i = 1 THEN "running"
                                 ELSE "pending"]
                 /\ outcomes' = [i \in 1..n |-> NoOutcome]
                 /\ results' = [i \in 1..n |-> NoResult]
    /\ tool_messages' = <<>>
    /\ tool_results' = <<>>
    /\ finished' = <<>>
    /\ UNCHANGED <<requests, routerVars, events, publishing, config, stored, invokes,
                   calls, response, managed, tool_calls_made,
                   working_messages, iteration>>

\* _ahandle_structured_tool_calls after the execution operation returned,
\* then the rest of ainvoke.
HandleReturn(messages, displays) ==
    Complete(history \o messages,
             CombineResults(last_model.content, displays), FALSE)

\* _aexecute_tools_sequential: the running call completes; its result is
\* appended; the next call starts, or the operation returns.
SeqToolFinish ==
    /\ pc = "sequential"
    /\ LET i == Running
       IN  \E o \in OutcomesOf(batch[i]) :
              LET result_info == AExecuteSingleTool(batch[i], o)
                  msgs == Append(tool_messages, result_info.tool_message)
                  disp == Append(tool_results, result_info.formatted_display)
              IN  /\ outcomes' = [outcomes EXCEPT ![i] = o]
                  /\ finished' = Append(finished, i)
                  /\ tool_calls_made' =
                        Append(tool_calls_made, result_info.tool_call_info)
                  /\ tool_messages' = msgs
                  /\ tool_results' = disp
                  /\ IF i < Len(batch)
                     THEN /\ status' = [status EXCEPT ![i] = "done",
                                                      ![i + 1] = "running"]
                          /\ UNCHANGED <<history, stored, response, managed,
                                         pc>>
                     ELSE /\ status' = [status EXCEPT ![i] = "done"]
                          /\ HandleReturn(msgs, disp)
    /\ UNCHANGED <<requests, routerVars, events, publishing, config, invokes, calls,
                   last_model, batch, results, working_messages, iteration,
                   mode>>

\* One task of asyncio.gather runs up to run_in_executor: the tool starts on
\* a worker thread.  Tasks start in creation order.
ParToolStart(i) ==
    /\ pc = "gather"
    /\ i \in DOMAIN status
    /\ status[i] = "pending"
    /\ \A j \in 1..(i - 1) : status[j] # "pending"
    /\ Cardinality(InFlight) < executor_workers
    /\ status' = [status EXCEPT ![i] = "running"]
    /\ UNCHANGED <<requests, routerVars, events, publishing, config, stored, history,
                   pc, invokes, calls, last_model, response, managed,
                   tool_calls_made, batch, outcomes, results, tool_messages,
                   tool_results, working_messages, iteration, mode, finished>>

\* A started tool completes, in any order; gather keeps its result.
ParToolFinish(i) ==
    /\ pc = "gather"
    /\ i \in DOMAIN status
    /\ status[i] = "running"
    /\ \E o \in OutcomesOf(batch[i]) :
          /\ outcomes' = [outcomes EXCEPT ![i] = o]
          /\ results' = StoreResult(results, i, AExecuteSingleTool(batch[i], o))
    /\ status' = [status EXCEPT ![i] = "done"]
    /\ finished' = Append(finished, i)
    /\ UNCHANGED <<requests, routerVars, events, publishing, config, stored, history,
                   pc, invokes, calls, last_model, response, managed,
                   tool_calls_made, batch, tool_messages, tool_results,
                   working_messages, iteration, mode>>

\* _aexecute_tools_parallel after gather: the results are processed in
\* order, and the operation returns.
GatherReturns ==
    /\ pc = "gather"
    /\ \A i \in DOMAIN status : status[i] = "done"
    /\ tool_calls_made' = tool_calls_made \o InfosOf(results)
    /\ tool_messages' = MessagesOf(results)
    /\ tool_results' = DisplaysOf(results)
    /\ HandleReturn(tool_messages', tool_results')
    /\ UNCHANGED <<requests, routerVars, events, publishing, config, invokes, calls,
                   last_model, batch, status, outcomes, results,
                   working_messages, iteration, mode, finished>>

-----------------------------------------------------------------------------
(* Provider-managed path: BedrockBearerProvider.ainvoke_with_tools *)

\* BaseAgent.conversation_id of the agent that serves the requests.
AgentConversationId == "conv_1"

\* Attributes assigned on the provider object (BaseModelProvider.__init__,
\* BedrockBearerProvider.__init__).
ProviderAttrs ==
    [model_name |-> "anthropic.claude-3-sonnet", kwargs |-> "kwargs",
     bearer_token |-> "token", region |-> "eu-west-2", endpoint |-> "url"]

\* getattr(obj, name, default)
GetAttr(attrs, name, default) ==
    IF name \in DOMAIN attrs THEN attrs[name] ELSE default

\* The conversation id the provider broadcasts under.
CurrentConversationId ==
    GetAttr(ProviderAttrs, "current_conversation_id", "unknown")

\* What one broadcast attempt can do: hand the event to the stream of the
\* conversation (a send task is created), find no stream, or raise (the
\* import of api.router or the creation of the task fails).
PublishOutcomes == {"task", "no_stream", "raise"}

\* The outcomes a round may draw from.
PublishOutcomesOf == IF Rich THEN PublishOutcomes ELSE {"no_stream"}

Event(type, tool_call) ==
    [type |-> type, tool_id |-> tool_call.id,
     conversation_id |-> CurrentConversationId]

LlmUsage ==
    [type |-> "llm_usage", tool_id |-> NoId,
     conversation_id |-> CurrentConversationId]

\* broadcast_tool_call_event(conversation_id, event) as the provider calls
\* it: the event is broadcast unless the attempt raises.
Broadcast(log, pub, event) ==
    IF pub = "raise" THEN log ELSE Append(log, event)

\* Mutant: a model call returns without broadcasting its usage.
MakeBedrockCallSilent(pub) == <<>>

\* The events of a model call that succeeds: self._broadcast_llm_usage(result)
\* is called once before _make_bedrock_call returns.
MakeBedrockCall(pub) == Broadcast(<<>>, pub, LlmUsage)

\* Mutant: a failed broadcast is not caught where it is made.
PublishUnguarded(pub) == IF pub = "raise" THEN "raise" ELSE "done"

\* try: broadcast ... except Exception: pass
PublishGuarded(pub) == IF pub = "raise" THEN "swallowed" ELSE "done"

\* The events of a model call: the usage of the call, then one
\* tool_call_start per tool_use block of the response.
RECURSIVE ResponseEvents(_, _, _)
ResponseEvents(log, pub, tool_calls) ==
    IF tool_calls = <<>> THEN log
    ELSE ResponseEvents(Broadcast(log, pub,
                                  Event("tool_call_start", Head(tool_calls))),
                        pub, Tail(tool_calls))

\* The try block around one tool: the start broadcast, the tool, the
\* completion broadcast; any exception that reaches the outer except
\* becomes the error text.
BedrockExecute(tool_call, o, pub) ==
    LET failed == [kind |-> "raise", success |-> FALSE,
                   text |-> <<"broadcast failed">>]
    IN  IF PublishGuarded(pub) = "raise"
        THEN BedrockToolResult(tool_call, failed)
        ELSE BedrockToolResult(tool_call, o)

\* Mutant: a call without a tool is skipped and gets no message.
RECURSIVE RunNotFoundSilently(_, _, _)
RunNotFoundSilently(tool_calls, i, messages) ==
    IF i > Len(tool_calls) \/ tool_calls[i].name \in ResolvedTools(config.tools)
    THEN [next |-> i, messages |-> messages]
    ELSE RunNotFoundSilently(tool_calls, i + 1, messages)

\* The tool loop from call i on, as far as it runs without waiting: a call
\* whose name is not among the bound tools gets its "not found" message at
\* once.  The result is the first call that has a tool (or Len + 1) and the
\* working messages so far.
RECURSIVE RunNotFound(_, _, _)
RunNotFound(tool_calls, i, messages) ==
    IF i > Len(tool_calls) \/ tool_calls[i].name \in ResolvedTools(config.tools)
    THEN [next |-> i, messages |-> messages]
    ELSE RunNotFound(tool_calls, i + 1,
                     Append(messages,
                            ToolMessage(BedrockNotFound(tool_calls[i]),
                                        tool_calls[i].id)))

\* tool_execution_start of the call the loop runs next from call i on, if
\* there is one (a call without a tool has no such event).
StartNext(log, pub, tool_calls, i) ==
    LET next == RunNotFound(tool_calls, i, <<>>).next
    IN  IF next > Len(tool_calls) THEN log
        ELSE Broadcast(log, pub, Event("tool_execution_start", tool_calls[next]))

\* Mutant: the loop appends to the list the caller passed in.
CallerMessagesAliased(messages, working, returned) == working

\* working_messages = messages.copy(): the caller's list stays as it was
\* passed in; the agent assigns the returned messages to its history.
CallerMessages(messages, working, returned) ==
    IF returned THEN working ELSE messages

\* Mutant: the loop condition is off by one.
LoopContinuesOnceMore(it) == it <= max_iterations

\* while iteration < max_iterations
LoopContinues(it) == it < max_iterations

\* The loop continues with call i of tool_calls: the next tool starts, or
\* the batch is finished and the while condition decides between another
\* model call and the maximum-iterations outcome.
BedrockContinue(tool_calls, i, messages) ==
    LET r == RunNotFound(tool_calls, i, messages)
        atEnd == r.next > Len(tool_calls)
        capped == atEnd /\ ~LoopContinues(iteration)
    IN  /\ status' = [k \in 1..Len(tool_calls) |->
                        IF k < r.next THEN "done"
                        ELSE IF k = r.next THEN "running" ELSE "pending"]
        /\ working_messages' = r.messages
        /\ iteration' = IF atEnd /\ ~capped THEN iteration + 1 ELSE iteration
        /\ calls' = IF atEnd /\ ~capped THEN calls + 1 ELSE calls
        /\ pc' = IF ~atEnd THEN "bedrock_tools"
                 ELSE IF capped THEN "returned" ELSE "bedrock_call"
        /\ history' = CallerMessages(history, r.messages, capped)
        /\ stored' = IF capped THEN SaveConversation(r.messages) ELSE stored
        /\ response' = IF capped THEN MaxIterationsReached ELSE response
        /\ managed' = IF capped THEN TRUE ELSE managed

\* The model answers without tool calls: the loop returns the text and its
\* messages, which replace the agent's history.
BedrockReturnsText ==
    /\ pc = "bedrock_call"
    /\ \E r \in ModelResponses :
          /\ r.tool_calls = <<>>
          /\ last_model' = r
          /\ working_messages' =
                Append(working_messages, AIMessage(r.content, <<>>))
          /\ Complete(working_messages', r.content, TRUE)
    /\ \E pub \in PublishOutcomesOf :
          /\ publishing' = pub
          /\ events' = MakeBedrockCall(pub)
    /\ UNCHANGED <<requests, routerVars, config, invokes, calls, tool_calls_made, batch,
                   status, outcomes, results, tool_messages, tool_results,
                   iteration, mode, finished>>

\* The model answers with tool calls: the AIMessage is appended to the
\* working messages and the tools are executed one after the other.
BedrockReturnsToolCalls ==
    /\ pc = "bedrock_call"
    /\ \E r \in ModelResponses :
          /\ r.tool_calls # <<>>
          /\ last_model' = r
          /\ batch' = r.tool_calls
          /\ outcomes' = [i \in 1..Len(r.tool_calls) |-> NoOutcome]
          /\ BedrockContinue(r.tool_calls, 1,
                             WithAssistantTurn(working_messages, r))
          /\ \E pub \in PublishOutcomesOf :
                /\ publishing' = pub
                /\ events' =
                      StartNext(ResponseEvents(MakeBedrockCall(pub),
                                               pub, r.tool_calls),
                                pub, r.tool_calls, 1)
    /\ mode' = "provider"
    /\ finished' = <<>>
    /\ UNCHANGED <<requests, routerVars, config, invokes, tool_calls_made, results,
                   tool_messages, tool_results>>

\* The running tool returns or raises: its ToolMessage is appended and the
\* loop goes on.
BedrockToolFinish ==
    /\ pc = "bedrock_tools"
    /\ LET i == Running
       IN  \E o \in OutcomesOf(batch[i]) :
              /\ outcomes' = [outcomes EXCEPT ![i] = o]
              /\ finished' = Append(finished, i)
              /\ BedrockContinue(batch, i + 1,
                    Append(working_messages,
                           ToolMessage(BedrockExecute(batch[i], o, publishing),
                                       batch[i].id)))
              /\ events' =
                    StartNext(Broadcast(events, publishing,
                                 Event(IF o.kind = "raise"
                                       THEN "tool_execution_error"
                                       ELSE "tool_execution_complete",
                                       batch[i])),
                              publishing, batch, i + 1)
    /\ UNCHANGED <<requests, routerVars, publishing, config, invokes, last_model,
                   tool_calls_made, batch, results, tool_messages,
                   tool_results, mode>>

-----------------------------------------------------------------------------

Next ==
    \/ \E message \in Messages : AInvoke(message)
    \/ ModelFails
    \/ PlainReturns
    \/ StructuredReturnsText
    \/ StructuredReturnsToolCalls
    \/ SeqToolFinish
    \/ \E i \in 1..(MaxCalls + 1) : ParToolStart(i)
    \/ \E i \in 1..(MaxCalls + 1) : ParToolFinish(i)
    \/ GatherReturns
    \/ BedrockReturnsText
    \/ BedrockReturnsToolCalls
    \/ BedrockToolFinish

Spec == Init /\ [][Next]_vars

-----------------------------------------------------------------------------
(* The conversation as a list: what appending a turn does *)

\* Longest conversation built by appending turns.
MaxAppendLen == 3

\* Turns a caller may append.
AppendableTurns ==
    LET c1 == [id |-> <<1, 1, 1>>, name |-> "calculator", args |-> "args"]
        c2 == [id |-> <<1, 1, 2>>, name |-> "calculator", args |-> "args"]
    IN  { HumanMessage(<<"What is 6*7?">>),
          AIMessage(FinalText, <<>>),
          AIMessage(<<>>, <<c1, c2>>),
          ToolMessage(Str(OkOutcome), c1.id),
          ToolMessage(Str(OkOutcome), c2.id),
          ToolMessage(Str(OkOutcome), <<9, 9, 9>>) }

\* conversation_history.append(turn) / working_messages.append(turn): the
\* conversation is a plain list, the turn is added at its end.
ConversationAppend(turn) ==
    /\ pc = "idle"
    /\ Len(history) < MaxAppendLen
    /\ history' = Append(history, turn)
    /\ UNCHANGED <<requests, routerVars, events, publishing, config, stored, pc,
                   invokes, calls, last_model, response, managed,
                   tool_calls_made, batch, status, outcomes, results,
                   tool_messages, tool_results, working_messages, iteration,
                   mode, finished>>

InitAppend ==
    /\ Init
    /\ stored = <<>>
    /\ config = [provider |-> "langchain", parallel_execution |-> TRUE,
                 system_prompt |-> <<>>, tools |-> <<"calculator">>]

NextAppend == \E turn \in AppendableTurns : ConversationAppend(turn)

SpecAppend == InitAppend /\ [][NextAppend]_vars

\* Every model call and every tool call returns or fails, and the event
\* loop runs every task that is ready.
Step ==
    \/ ModelFails
    \/ PlainReturns
    \/ StructuredReturnsText
    \/ StructuredReturnsToolCalls
    \/ SeqToolFinish
    \/ \E i \in 1..(MaxCalls + 1) : ParToolStart(i)
    \/ \E i \in 1..(MaxCalls + 1) : ParToolFinish(i)
    \/ GatherReturns
    \/ BedrockReturnsText
    \/ BedrockReturnsToolCalls
    \/ BedrockToolFinish

FairSpec == Spec /\ WF_vars(Step)

-----------------------------------------------------------------------------
(* Tool-call event streams: the operations *)

\* ToolCallStream.__init__; killed is history: kill_conversation has found
\* this object.
ToolCallStream(conversation_id, time) ==
    [conversation_id |-> conversation_id, queue |-> <<>>,
     last_activity |-> time, is_active |-> TRUE, killed |-> FALSE,
     exists |-> TRUE]

\* Mutant: a full queue keeps what it has and the new event is lost.
SendEventDropsNewest(stream, event, time) ==
    IF ~stream.is_active THEN stream
    ELSE [stream EXCEPT
            !.last_activity = time,
            !.queue = IF Len(@) < queue_maxsize THEN Append(@, event) ELSE @]

\* Mutant: the event is queued whether the stream is active or not.
SendEventToInactive(stream, event, time) ==
    [stream EXCEPT
        !.last_activity = time,
        !.queue = IF Len(@) < queue_maxsize THEN Append(@, event)
                  ELSE Append(Tail(@), event)]

\* ToolCallStream.send_event: nothing when the stream is inactive; else
\* put_nowait, and on QueueFull get_nowait (the oldest) and put_nowait.
SendEvent(stream, event, time) ==
    IF ~stream.is_active THEN stream
    ELSE [stream EXCEPT
            !.last_activity = time,
            !.queue = IF Len(@) < queue_maxsize THEN Append(@, event)
                      ELSE Append(Tail(@), event)]

\* Mutant: the newest event of the queue is taken first.
QueueGetNewest(queue) ==
    [item |-> queue[Len(queue)], rest |-> SubSeq(queue, 1, Len(queue) - 1)]

\* asyncio.Queue.get: the oldest event leaves the queue.
QueueGet(queue) == [item |-> Head(queue), rest |-> Tail(queue)]

\* ToolCallStream.cleanup
Cleanup(stream) == [stream EXCEPT !.is_active = FALSE]

\* Mutant: the generator ends without cleaning up.
FinallyNothing(stream) == stream

\* get_events: finally: self.cleanup()
Finally(stream) == Cleanup(stream)

\* Mutant: the stream is idle too long from the threshold on.
IdleTooLongFromThreshold(stream, time) ==
    time - stream.last_activity >= idle_threshold

\* time.time() - self.last_activity > 300
IdleTooLong(stream, time) == time - stream.last_activity > idle_threshold

\* What a lookup yields when it raises KeyError.
KeyError == Cardinality(StreamIds) + 1

\* Mutant: a missing key is an error.
RegistryIndex(registry, conversation_id) ==
    IF registry[conversation_id] = None THEN KeyError
    ELSE registry[conversation_id]

\* Mutant: a missing key falls back to any registered stream.
RegistryGetAny(registry, conversation_id) ==
    IF registry[conversation_id] # None THEN registry[conversation_id]
    ELSE IF \E c \in DOMAIN registry : registry[c] # None
         THEN registry[CHOOSE c \in DOMAIN registry : registry[c] # None]
         ELSE None

\* active_streams.get(conversation_id) in broadcast_tool_call_event
BroadcastGet(registry, conversation_id) == registry[conversation_id]

\* active_streams.get(conversation_id) in get_or_create_stream and in
\* kill_conversation
RegistryGet(registry, conversation_id) == registry[conversation_id]

\* Events handed to the broadcast so far.
Total(counts) == counts["conv_1"] + counts["conv_2"]

\* The objects something refers to: a running generator, or a send_event
\* task that was created and has not run.
Referenced(generators, pending) ==
    {generators[g].stream : g \in SubscriberIds}
       \cup {pending[k].stream : k \in 1..Len(pending)}

\* weakref.WeakValueDictionary: a stream nothing refers to is freed and its
\* entry leaves the registry.
LiveStreams(objects, generators, pending) ==
    [s \in StreamIds |->
        IF s \in Referenced(generators, pending) THEN objects[s] ELSE NoStream]

LiveRegistry(registry, generators, pending) ==
    [c \in ConversationIds |->
        IF registry[c] \in Referenced(generators, pending)
        THEN registry[c] ELSE None]

\* A subscriber whose queue.get() can return.
Deliverable(g) ==
    /\ subscribers[g].stream # None
    /\ streams[subscribers[g].stream].queue # <<>>

\* A subscriber whose wait_for has run into its timeout.
TimedOut(g) ==
    /\ subscribers[g].stream # None
    /\ streams[subscribers[g].stream].queue = <<>>
    /\ now - subscribers[g].since >= wait_timeout

SweepDue == next_sweep # 0 /\ now >= next_sweep

\* Mutant: every call creates a task.
StartCleanupTaskAlways(alive) == alive + 1

\* start_cleanup_task: a task is created when there is none; the task
\* loops forever, so one that exists is never done.
StartCleanupTask(alive) == IF alive = 0 THEN alive + 1 ELSE alive

\* Mutant: the registered stream is returned whether it is active or not.
ReusableWhenRegistered(objects, stream) == stream # None

\* get_or_create_stream: not (stream is None or not stream.is_active)
Reusable(objects, stream) == stream # None /\ objects[stream].is_active

\* GET /tool-calls/stream/{conversation_id} for one of the given clients:
\* get_or_create_stream, then the response runs stream.get_events().
StreamToolCalls(conversation_id, clients) ==
    \E g \in clients :
        /\ subscribers[g].stream = None
        /\ LET old == RegistryGet(active_streams, conversation_id)
               reuse == Reusable(streams, old)
           IN  \E s \in StreamIds :
                   /\ IF reuse THEN s = old
                      ELSE /\ ~streams[s].exists
                           /\ \A t \in StreamIds : ~streams[t].exists => s <= t
                   /\ streams' =
                         IF reuse THEN streams
                         ELSE [streams EXCEPT
                                 ![s] = ToolCallStream(conversation_id, now)]
                   /\ active_streams' =
                         [active_streams EXCEPT ![conversation_id] = s]
                   /\ next_sweep' =
                         IF ~reuse /\ next_sweep = 0
                         THEN now + sweep_interval ELSE next_sweep
                   /\ cleanup_tasks' =
                         IF reuse THEN cleanup_tasks
                         ELSE StartCleanupTask(cleanup_tasks)
                   /\ subscribers' =
                         [subscribers EXCEPT
                            ![g] = [stream |-> s, since |-> now,
                                    last |-> "none", seen |-> 0]]
        /\ subscribed' = subscribed \cup {conversation_id}
        /\ UNCHANGED <<requests, agentVars, tasks, now, published, raised>>

\* broadcast_tool_call_event: a send_event task for the registered stream,
\* nothing when there is none.
BroadcastToolCallEvent(conversation_id, limit) ==
    /\ Total(published) < limit
    /\ Len(tasks) < MaxPending
    /\ published' =
          [published EXCEPT ![conversation_id] = @ + 1]
    /\ LET stream == BroadcastGet(active_streams, conversation_id)
           event == ToolEvent(conversation_id, published'[conversation_id])
       IN  /\ tasks' = IF stream = None \/ stream = KeyError THEN tasks
                       ELSE Append(tasks, [stream |-> stream, event |-> event])
           /\ raised' = IF stream = KeyError
                         THEN raised \cup {conversation_id} ELSE raised
    /\ UNCHANGED <<requests, cleanup_tasks, agentVars, active_streams, streams, subscribers, now,
                   next_sweep, subscribed>>

\* The event loop runs the oldest send_event task.
RunSendEvent ==
    /\ tasks # <<>>
    /\ tasks' = Tail(tasks)
    /\ LET task == Head(tasks)
           sent == [streams EXCEPT
                      ![task.stream] = SendEvent(@, task.event, now)]
       IN  /\ streams' = LiveStreams(sent, subscribers, tasks')
           /\ active_streams' =
                 LiveRegistry(active_streams, subscribers, tasks')
    /\ UNCHANGED <<requests, cleanup_tasks, agentVars, subscribers, now, next_sweep, published,
                   subscribed, raised>>

\* POST /kill-conversation/{conversation_id}: the kill event is sent and
\* the stream cleaned up, when there is one; the call returns either way.
KillConversation(conversation_id) ==
    /\ LET stream == RegistryGet(active_streams, conversation_id)
       IN  streams' =
              IF stream = None THEN streams
              ELSE [streams EXCEPT
                      ![stream] =
                          [Cleanup(SendEvent(@, Killed(conversation_id), now))
                              EXCEPT !.killed = TRUE]]
    /\ UNCHANGED <<requests, cleanup_tasks, agentVars, active_streams, subscribers, tasks, now,
                   next_sweep, published, subscribed, raised>>

\* The generator after a yield: it waits again while the stream is active,
\* and ends through cleanup() otherwise; the stream of a generator that
\* ended may be freed.
AfterYield(g, objects, item, n, ended) ==
    /\ subscribers' =
          [subscribers EXCEPT
             ![g] = IF ended THEN NoSubscriber(item)
                    ELSE [stream |-> subscribers[g].stream, since |-> now,
                          last |-> item, seen |-> n]]
    /\ streams' = LiveStreams(objects, subscribers', tasks)
    /\ active_streams' = LiveRegistry(active_streams, subscribers', tasks)

\* get_events: queue.get() returns an event, which is yielded.
GetEvent(g) ==
    /\ Deliverable(g)
    /\ LET s == subscribers[g].stream
           got == QueueGet(streams[s].queue)
           ended == ~streams[s].is_active
       IN  AfterYield(g, [streams EXCEPT ![s].queue = got.rest,
                                         ![s].last_activity = now],
                      got.item.type,
                      IF got.item.type = "conversation_killed"
                      THEN subscribers[g].seen ELSE got.item.n,
                      ended)
    /\ UNCHANGED <<requests, cleanup_tasks, agentVars, tasks, now, next_sweep, published, subscribed,
                   raised>>

\* get_events: the wait times out; a keepalive is yielded and the stream
\* ends when it has been idle too long.
WaitTimeout(g) ==
    /\ TimedOut(g)
    /\ LET s == subscribers[g].stream
           ended == IdleTooLong(streams[s], now) \/ ~streams[s].is_active
       IN  AfterYield(g, IF ended THEN [streams EXCEPT ![s] = Finally(@)]
                         ELSE streams,
                      "keepalive", subscribers[g].seen, ended)
    /\ UNCHANGED <<requests, cleanup_tasks, agentVars, tasks, now, next_sweep, published, subscribed,
                   raised>>

\* get_events: the client goes away (CancelledError); finally: cleanup().
Disconnect(g) ==
    /\ subscribers[g].stream # None
    /\ LET s == subscribers[g].stream
       IN  AfterYield(g, [streams EXCEPT ![s] = Finally(@)],
                      "cancelled", subscribers[g].seen, TRUE)
    /\ UNCHANGED <<requests, cleanup_tasks, agentVars, tasks, now, next_sweep, published, subscribed,
                   raised>>

\* Mutant: the pass takes every registered stream for inactive.
SweepFindsAll(stream, time) == TRUE

\* if not stream.is_active or current_time - stream.last_activity > 300
SweepFinds(stream, time) ==
    ~stream.is_active \/ time - stream.last_activity > idle_threshold

\* One pass of cleanup_inactive_streams: cleanup() on every registered
\* stream that is inactive or idle too long.
CleanupInactiveStreams ==
    /\ SweepDue
    /\ LET inactive_ids ==
              {c \in ConversationIds :
                  /\ active_streams[c] # None
                  /\ SweepFinds(streams[active_streams[c]], now)}
       IN  streams' =
              [s \in StreamIds |->
                  IF \E c \in inactive_ids : active_streams[c] = s
                  THEN Cleanup(streams[s]) ELSE streams[s]]
    /\ next_sweep' = now + sweep_interval
    /\ UNCHANGED <<requests, cleanup_tasks, agentVars, active_streams, subscribers, tasks, now,
                   published, subscribed, raised>>

\* Time passes once everything that is due has run.
Tick ==
    /\ now + TimeStep <= MaxTime
    /\ tasks = <<>>
    /\ ~SweepDue
    /\ \A g \in SubscriberIds : ~Deliverable(g) /\ ~TimedOut(g)
    /\ now' = now + TimeStep
    /\ UNCHANGED <<requests, cleanup_tasks, agentVars, active_streams, streams, subscribers, tasks,
                   next_sweep, published, subscribed, raised>>

StreamInit ==
    /\ Init
    /\ stored = <<>>
    /\ config = [provider |-> "bedrock", parallel_execution |-> TRUE,
                 system_prompt |-> <<>>, tools |-> <<"calculator">>]

\* One client that subscribes again and again.
OneClient == {CHOOSE g \in SubscriberIds : \A h \in SubscriberIds : g <= h}

\* Publishers, a subscriber and kills at one moment in time.
StreamNext ==
    \/ \E c \in ConversationIds : StreamToolCalls(c, OneClient)
    \/ \E c \in ConversationIds : BroadcastToolCallEvent(c, MaxEvents)
    \/ RunSendEvent
    \/ \E c \in ConversationIds : KillConversation(c)
    \/ \E g \in SubscriberIds : GetEvent(g)
    \/ \E g \in SubscriberIds : Disconnect(g)

StreamSpec == StreamInit /\ [][StreamNext]_vars

\* The same with time passing, timeouts and the background sweep, for a
\* few events.
TimedNext ==
    \/ \E c \in ConversationIds : StreamToolCalls(c, SubscriberIds)
    \/ \E c \in ConversationIds : BroadcastToolCallEvent(c, MaxTimedEvents)
    \/ RunSendEvent
    \/ \E c \in ConversationIds : KillConversation(c)
    \/ \E g \in SubscriberIds : GetEvent(g)
    \/ \E g \in SubscriberIds : WaitTimeout(g)
    \/ \E g \in SubscriberIds : Disconnect(g)
    \/ CleanupInactiveStreams
    \/ Tick

TimedSpec == StreamInit /\ [][TimedNext]_vars

-----------------------------------------------------------------------------
(* Properties *)

AgentExecuted == mode \in {"sequential", "parallel"}

\* C1: in parallel mode, whatever the completion order, the i-th returned
\* tool message and the i-th display text are those of the i-th requested
\* tool call (same tool_call_id): output order equals input order.
C1_ParallelOrder ==
    (pc = "returned" /\ mode = "parallel") =>
        /\ Len(tool_messages) = Len(batch)
        /\ Len(tool_results) = Len(batch)
        /\ \A i \in 1..Len(batch) :
              LET own == AExecuteSingleTool(batch[i], outcomes[i])
              IN  /\ tool_messages[i].tool_call_id = batch[i].id
                  /\ tool_messages[i] = own.tool_message
                  /\ tool_results[i] = own.formatted_display

\* C1 witness: a parallel batch of three calls has returned and its calls
\* completed in another order than they were requested.
C1_Witness ==
    /\ pc = "returned"
    /\ mode = "parallel"
    /\ Len(batch) = 3
    /\ finished = <<3, 1, 2>>
    /\ outcomes[1] # outcomes[3]

\* C2: in parallel mode no more than max_parallel_tools tool invocations
\* are in flight at any moment.
C2_InFlightBounded ==
    mode = "parallel" => Cardinality(InFlight) <= max_parallel_tools

NotFoundInHistory(messages, tool_call, text) ==
    \E k \in 1..Len(messages) :
        /\ messages[k].role = "tool"
        /\ messages[k].tool_call_id = tool_call.id
        /\ messages[k].content = text

\* C4: a requested tool whose name does not resolve yields a failed result
\* and no exception: the operation goes on, and a tool turn with the
\* not-found error and the request's id is appended to the conversation.
C4_NotFoundIsAResult ==
    /\ (AgentExecuted /\ pc = "returned") =>
          \A i \in 1..Len(batch) :
              batch[i].name \notin RegisteredTools =>
                 /\ tool_calls_made[i].success = FALSE
                 /\ NotFoundInHistory(history, batch[i],
                       <<"Error: ", "Tool '", batch[i].name, "' not found">>)
    /\ mode = "provider" =>
          /\ \A i \in 1..Len(batch) :
                (status[i] = "done"
                   /\ batch[i].name \notin ResolvedTools(config.tools)) =>
                      NotFoundInHistory(working_messages, batch[i],
                         <<"Tool ", batch[i].name, " not found">>)
          /\ pc = "returned" => history = working_messages
    /\ (mode # "none" /\ pc = "raised") =>
          \A i \in 1..Len(batch) : status[i] = "done"

\* C4 witness: a batch with an unknown name first and a real tool after it
\* has been executed to the end, on either path.
C4_Witness ==
    /\ pc = "returned"
    /\ mode \in {"sequential", "provider"}
    /\ Len(batch) = 2
    /\ batch[1].name = "ghost"
    /\ batch[2].name = "calculator"
    /\ outcomes[2] = OkOutcome

Done == pc \in {"returned", "raised"}

Busy == pc \notin {"idle", "returned", "raised"}

\* C5: one run of the loop makes at most max_iterations (20) model calls
\* and ends (returns or raises), whatever the model answers, when every
\* model call and every tool call returns or fails.
C5_BoundedTermination ==
    /\ [](calls <= max_iterations /\ iteration <= max_iterations)
    /\ [](Busy => <>Done)

\* C5 witness: the provider loop is in its 20th round with a tool running.
C5_Witness ==
    /\ pc = "bedrock_tools"
    /\ iteration = max_iterations
    /\ calls = max_iterations

\* Assistant turns with tool calls among messages[from..].
ToolRounds(messages, from) ==
    Cardinality({k \in from..Len(messages) :
                    /\ messages[k].role = "assistant"
                    /\ messages[k].tool_calls # <<>>})

\* Index of the last user turn of messages (0 when there is none).
LastUser(messages) ==
    LET us == {k \in 1..Len(messages) : messages[k].role = "user"}
    IN  IF us = {} THEN 0 ELSE CHOOSE k \in us : \A j \in us : j <= k

\* C6: when the model asks for tools in every round, the loop returns the
\* maximum-iterations outcome as a normal value after exactly 20 model
\* invocations; there is never a 21st.  (The id of a requested call names
\* the model call that requested it: once the tools of the 20th response
\* are done the loop has returned.)
C6_CapOutcome ==
    /\ calls <= max_iterations
    /\ (mode = "provider" /\ last_model.tool_calls # <<>>
          /\ last_model.tool_calls[1].id = <<invokes, max_iterations, 1>>
          /\ \A i \in 1..Len(batch) : status[i] = "done") =>
             /\ pc = "returned"
             /\ response = MaxIterationsReached
             /\ managed
             /\ history = working_messages
             /\ ToolRounds(history, LastUser(history)) = max_iterations
    /\ (pc = "returned" /\ response = MaxIterationsReached) =>
          /\ calls = max_iterations
          /\ last_model.tool_calls # <<>>

\* C6 witness: the loop has returned the maximum-iterations outcome.
C6_Witness ==
    /\ pc = "returned"
    /\ response = MaxIterationsReached
    /\ calls = max_iterations

\* C7: the text returned for a user message is the content of a model
\* response without tool calls, or the iteration-limit outcome: a response
\* with tool calls is always followed by another model call.
C7_FinalTextOnly ==
    pc = "returned" =>
        \/ last_model.tool_calls = <<>> /\ response = last_model.content
        \/ response = MaxIterationsReached

\* One pass over messages from turn k on: the ids requested by the latest
\* assistant turn and not answered yet, and whether every turn so far was
\* in order (a tool turn answers a pending id; an assistant turn comes only
\* when nothing is pending, and requests distinct ids).
RECURSIVE Scan(_, _, _)
Scan(messages, k, pending) ==
    IF k > Len(messages) THEN [ok |-> TRUE, pending |-> pending]
    ELSE LET m == messages[k]
             ids == {m.tool_calls[i].id : i \in 1..Len(m.tool_calls)}
         IN  CASE m.role = "assistant" ->
                    IF pending = {} /\ Cardinality(ids) = Len(m.tool_calls)
                    THEN Scan(messages, k + 1, ids)
                    ELSE [ok |-> FALSE, pending |-> pending]
               [] m.role = "tool" ->
                    IF m.tool_call_id \in pending
                    THEN Scan(messages, k + 1, pending \ {m.tool_call_id})
                    ELSE [ok |-> FALSE, pending |-> pending]
               [] OTHER -> Scan(messages, k + 1, pending)

WellFormed(messages) == Scan(messages, 1, {}).ok

Pending(messages) == Scan(messages, 1, {}).pending

\* C8: in every conversation history each tool turn answers a tool call of
\* the most recent assistant turn, and between an assistant turn with k
\* tool calls and the next assistant turn (or the end of the request) there
\* is exactly one tool turn per call, also when calls fail.
C8_ToolTurnsMatch ==
    /\ WellFormed(history)
    /\ WellFormed(working_messages)
    /\ pc = "returned" => Pending(history) = {}

\* C8 witness: a history with two tool rounds, one of them holding an
\* unknown tool's failure and a raised tool's failure, then the final answer.
C8_Witness ==
    /\ pc = "returned"
    /\ mode = "provider"
    /\ last_model.tool_calls = <<>>
    /\ ToolRounds(history, 1) = 2
    /\ \E k \in 1..Len(history) :
          /\ history[k].role = "tool"
          /\ history[k].content = <<"Tool ", "ghost", " not found">>
          /\ history[k + 1].role = "tool"
          /\ history[k + 1].content =
                <<"Error executing tool ", "calculator", ": ", "boom">>

Mismatched(messages, turn) ==
    turn.role = "tool" /\ turn.tool_call_id \notin Pending(messages)

\* C9: appending a tool turn whose tool_call_id matches no pending request
\* of the latest assistant turn is rejected: the conversation stays as it
\* was.
C9_MismatchRejected ==
    [][\A turn \in AppendableTurns :
          Mismatched(history, turn) => history' # Append(history, turn)]_vars

SystemTurns(messages) ==
    {k \in 1..Len(messages) : messages[k].role = "system"}

\* C10: a conversation that starts with at most one system turn holds at
\* most one after any sequence of requests; the configured system prompt
\* is inserted only when there is none.
C10_OneSystemTurn ==
    /\ Cardinality(SystemTurns(history)) <= 1
    /\ Cardinality(SystemTurns(working_messages)) <= 1
    /\ (invokes > 0 /\ config.system_prompt # <<>>) =>
          Cardinality(SystemTurns(history)) = 1

\* C10 witness: two requests were served on a conversation that began
\* without a system turn; the prompt was inserted by the first only.
C10_Witness ==
    /\ invokes = 2
    /\ pc = "returned"
    /\ config.system_prompt # <<>>
    /\ Len(history) >= 5
    /\ history[1].role = "user"
    /\ SystemTurns(history) = {3}

\* No structured tool calling for this agent: the provider does not
\* support it, no tool is configured, or no configured name is registered.
NoUsableTool ==
    \/ ~SupportsToolCalling(config.provider)
    \/ \A i \in 1..Len(config.tools) : config.tools[i] \notin RegisteredTools

\* C11: without a usable tool, processing a message is exactly one model
\* invocation without tools: no tool runs, no tool turn is appended, and
\* the invocation's content is what the request returns.
C11_FallbackIsOneCall ==
    NoUsableTool =>
        /\ mode = "none"
        /\ batch = <<>>
        /\ tool_calls_made = <<>>
        /\ calls <= 1
        /\ \A k \in 1..Len(history) : history[k].role # "tool"
        /\ pc \notin {"await_tools", "bedrock_call", "bedrock_tools",
                      "gather", "sequential"}
        /\ pc = "returned" =>
              /\ calls = 1
              /\ last_model.tool_calls = <<>>
              /\ response = last_model.content
              /\ ~managed
              /\ history[Len(history)] = AIMessage(last_model.content, <<>>)
              /\ history[Len(history) - 1].role = "user"

\* C11 witness: an agent whose only configured tool name is not registered
\* has answered a request on the Bedrock provider.
C11_Witness ==
    /\ config.tools = <<"ghost">>
    /\ config.provider = "bedrock"
    /\ pc = "returned"
    /\ response = FinalText

\* The queue of a stream after one more event was put into it when full or
\* not: the oldest event makes room for the newest.
Admitted(queue, event) ==
    IF Len(queue) < queue_maxsize THEN Append(queue, event)
    ELSE Append(Tail(queue), event)

\* A step in which the event loop ran a send_event task.
SendStep == tasks # <<>> /\ tasks' = Tail(tasks)

\* C12: sending an event to an active stream whose queue is full never
\* blocks and never drops the new event: the oldest queued event is removed
\* and the new one is put at the tail; no queue ever holds more than its
\* capacity of 10 events.
C12_FullQueueDropsOldest ==
    /\ [](\A s \in StreamIds : Len(streams[s].queue) <= queue_maxsize)
    /\ [](tasks # <<>> => ENABLED RunSendEvent)
    /\ [][SendStep =>
            LET s == Head(tasks).stream
                queue == streams[s].queue
            IN  (/\ streams[s].is_active
                 /\ Len(queue) = queue_maxsize
                 /\ streams'[s].exists)
                   => /\ streams'[s].queue = Append(Tail(queue), Head(tasks).event)
                      /\ Len(streams'[s].queue) = queue_maxsize]_vars

\* C12 witness: a stream that was sent eleven events while nothing was read
\* holds the second to the eleventh.
C12_Witness ==
    \E s \in StreamIds :
        /\ streams[s].is_active
        /\ Len(streams[s].queue) = queue_maxsize
        /\ Head(streams[s].queue) = ToolEvent(streams[s].conversation_id, 2)
        /\ streams[s].queue[queue_maxsize] =
              ToolEvent(streams[s].conversation_id, queue_maxsize + 1)

\* Events of one conversation in a queue.
QueueCount(queue, conversation_id) ==
    Cardinality({k \in 1..Len(queue) :
                    queue[k].conversation_id = conversation_id})

RECURSIVE RetainedIn(_, _)
RetainedIn(ids, conversation_id) ==
    IF ids = {} THEN 0
    ELSE LET s == CHOOSE s \in ids : TRUE
         IN  QueueCount(streams[s].queue, conversation_id)
                + RetainedIn(ids \ {s}, conversation_id)

\* Events of one conversation that are held anywhere: in a queue or in a
\* send_event task that has not run.
Retained(conversation_id) ==
    RetainedIn(StreamIds, conversation_id)
       + Cardinality({k \in 1..Len(tasks) :
                         tasks[k].event.conversation_id = conversation_id})

\* C13: while no subscriber has ever attached to a conversation, publishing
\* events for it raises no error, and the events retained for it never
\* exceed the queue capacity (none is retained and no stream is registered).
C13_NoSubscriberIsBounded ==
    \A c \in ConversationIds \ subscribed :
        /\ c \notin raised
        /\ Retained(c) <= queue_maxsize
        /\ active_streams[c] = None

\* C13 witness: more events than a queue can hold were published for a
\* conversation nobody ever subscribed to.
C13_Witness ==
    \E c \in ConversationIds \ subscribed :
        /\ published[c] = MaxEvents
        /\ published[c] > queue_maxsize
        /\ tasks = <<>>

\* C14: a publish for a conversation that has no registered stream is a
\* no-op: no stream is created, the registry, every stream's queue and the
\* pending deliveries stay as they are, and no error is raised.
C14_PublishWithoutStreamIsNoOp ==
    [][\A c \in ConversationIds :
          (published'[c] = published[c] + 1 /\ active_streams[c] = None)
             => /\ active_streams' = active_streams
                /\ streams' = streams
                /\ tasks' = tasks
                /\ subscribers' = subscribers
                /\ raised' = raised]_vars

\* C14 witness: events were published for a conversation that never had a
\* stream, while the stream of another conversation holds an event.
C14_Witness ==
    \E c, d \in ConversationIds :
        /\ c # d
        /\ c \notin subscribed
        /\ published[c] > 0
        /\ active_streams[d] # None
        /\ streams[active_streams[d]].queue # <<>>
        /\ tasks = <<>>

\* A step in which kill_conversation found the stream registered for a
\* conversation, for the first time.
KillStep(conversation_id) ==
    /\ active_streams[conversation_id] # None
    /\ ~streams[active_streams[conversation_id]].killed
    /\ streams'[active_streams[conversation_id]].killed

\* C15: kill on a registered active stream puts a conversation_killed event
\* into its queue and marks it inactive in the same step; an inactive
\* stream never becomes active again and its queue never takes in an
\* event, so everything sent after the kill is discarded.
C15_KillEnqueuesAndDeactivates ==
    /\ [][\A c \in ConversationIds :
            LET s == active_streams[c]
            IN  (KillStep(c) /\ streams[s].is_active)
                   => /\ ~streams'[s].is_active
                      /\ streams'[s].queue =
                            Admitted(streams[s].queue, Killed(c))]_vars
    /\ [][\A s \in StreamIds :
            (streams[s].exists /\ ~streams[s].is_active /\ streams'[s].exists)
               => /\ ~streams'[s].is_active
                  /\ \/ streams'[s].queue = streams[s].queue
                     \/ /\ streams[s].queue # <<>>
                        /\ streams'[s].queue = Tail(streams[s].queue)]_vars

\* C15 witness: a stream took in the first event of its conversation and
\* was killed; the second event, sent to it after the kill, is not in its
\* queue.
C15_Witness ==
    \E c \in ConversationIds :
        /\ active_streams[c] # None
        /\ ~streams[active_streams[c]].is_active
        /\ streams[active_streams[c]].killed
        /\ streams[active_streams[c]].queue = <<ToolEvent(c, 1), Killed(c)>>
        /\ published[c] = 2
        /\ tasks = <<>>

\* A step in which cleanup_inactive_streams made a pass.
SweepStep == next_sweep # 0 /\ next_sweep' # next_sweep

\* C16: after a pass of the background sweep no stream that was inactive
\* (killed or ended) or idle for more than 300 s when the pass began is
\* still in the registry.
C16_SweepRemovesFromRegistry ==
    [][SweepStep =>
          \A c \in ConversationIds :
              LET s == active_streams[c]
              IN  (/\ s # None
                   /\ \/ ~streams[s].is_active
                      \/ now - streams[s].last_activity > idle_threshold)
                     => active_streams'[c] # s]_vars

\* A step in which the wait of a generator ran into its timeout.
TimeoutStep(g) ==
    /\ TimedOut(g)
    /\ subscribers'[g] # subscribers[g]
    /\ subscribers'[g].last # "cancelled"

EventsOf(types, id) ==
    {k \in 1..Len(events) : events[k].type \in types /\ events[k].tool_id = id}

EndTypes == {"tool_execution_complete", "tool_execution_error"}

\* C18: for every requested tool call that has been handled, failing and
\* not-found calls included, tool_execution_start was published before the
\* invocation and exactly one of tool_execution_complete and
\* tool_execution_error after it, for the id of the call; no complete or
\* error event comes without a start before it.  (The calls are those of
\* the latest model response; a round whose broadcasts raise is left out:
\* it can publish nothing.)
C18_StartThenOneEnd ==
    /\ \A i \in 1..Len(batch) :
          (/\ last_model.tool_calls = batch
           /\ status[i] = "done"
           /\ publishing # "raise") =>
              /\ Cardinality(EventsOf({"tool_execution_start"}, batch[i].id)) = 1
              /\ Cardinality(EventsOf(EndTypes, batch[i].id)) = 1
              /\ \A k \in EventsOf({"tool_execution_start"}, batch[i].id) :
                    \A e \in EventsOf(EndTypes, batch[i].id) : k < e
    /\ \A e \in 1..Len(events) :
          events[e].type \in EndTypes =>
              \E k \in 1..(e - 1) :
                  /\ events[k].type = "tool_execution_start"
                  /\ events[k].tool_id = events[e].tool_id

\* C19: every event published while the agent works on a request of its
\* conversation is published under the id of that conversation, so that it
\* reaches the stream of that conversation and no other.
C19_EventsGoToOwner ==
    \A k \in 1..Len(events) : events[k].conversation_id = AgentConversationId

\* The tool turn of a call in the working messages of the provider loop.
ToolTurnIs(tool_call, text) ==
    \E k \in 1..Len(working_messages) :
        /\ working_messages[k] = ToolMessage(text, tool_call.id)
        /\ \A j \in 1..Len(working_messages) :
              working_messages[j].tool_call_id = tool_call.id => j = k

\* C20: a failure while publishing is swallowed: whether the broadcasts of
\* a round go to a stream, find none or raise, the tool turn of every
\* handled call holds what the tool did (or that it was not found), and
\* the loop returns the model's final text or the iteration-limit outcome.
C20_PublishFailureSwallowed ==
    mode = "provider" =>
        /\ \A i \in 1..Len(batch) :
              status[i] = "done" =>
                  IF batch[i].name \in ResolvedTools(config.tools)
                  THEN ToolTurnIs(batch[i],
                                  BedrockToolResult(batch[i], outcomes[i]))
                  ELSE ToolTurnIs(batch[i], BedrockNotFound(batch[i]))
        /\ pc = "returned" =>
              \/ response = last_model.content /\ last_model.tool_calls = <<>>
              \/ response = MaxIterationsReached

\* C20 witness: every broadcast of the round raised, the tool returned its
\* result, and the tool turn holds that result.
C20_Witness ==
    /\ mode = "provider"
    /\ publishing = "raise"
    /\ events = <<>>
    /\ Len(batch) >= 1
    /\ status[1] = "done"
    /\ outcomes[1] = OkOutcome
    /\ ToolTurnIs(batch[1], Str(OkOutcome))

\* A step in which a model call of the running request ended without a
\* response: the request leaves the call and the last response is as before.
ModelFailStep ==
    /\ pc \in {"await_plain", "await_tools", "bedrock_call"}
    /\ pc' # pc
    /\ last_model' = last_model

\* C21: a model call that fails in any round aborts the request with an
\* error for the caller: no retry, no further model or tool call for the
\* request, and no assistant turn for the failed round (the history ends
\* with the user's turn, as it did when the request began).
C21_ModelFailureAborts ==
    /\ [][ModelFailStep =>
            /\ pc' = "raised"
            /\ history' = history
            /\ stored' = stored
            /\ response' = response
            /\ calls' = calls
            /\ status' = status
            /\ tool_calls_made' = tool_calls_made]_vars
    /\ [][pc = "raised" => (pc' = pc \/ (invokes' = invokes + 1 /\ calls' = 1))]_vars
    /\ [](pc = "raised" =>
            /\ history[Len(history)].role = "user"
            /\ response = <<>>)

\* C21 witness: the provider loop made a second model call after a round of
\* tools, and that call failed.
C21_Witness ==
    /\ pc = "raised"
    /\ mode = "provider"
    /\ iteration = 2
    /\ Len(working_messages) > Len(history)

\* What a call did, as the registry's caller sees it: whether it succeeded,
\* and the text it produced (a result, or the error).
Succeeded(tool_call, o) ==
    LET result == ExecuteTool(tool_call.name, o)
    IN  result.kind = "dict" /\ result.success

\* C22: the result recorded for a tool call says success exactly when the
\* tool succeeded: a tool that raised, a tool that returned a failure and a
\* tool that was not found are all recorded with success false.
C22_SucceededFlag ==
    \A i \in 1..Len(tool_calls_made) :
        (mode \in {"sequential", "parallel"} /\ i <= Len(batch)) =>
            /\ tool_calls_made[i].tool_name = batch[i].name
            /\ tool_calls_made[i].success = Succeeded(batch[i], outcomes[i])

\* The display text the tool result of a call should have.
DisplayText(tool_call, o) ==
    LET result == ExecuteTool(tool_call.name, o)
    IN  IF Succeeded(tool_call, o)
        THEN <<"**", tool_call.name, "**: ">> \o result.text
        ELSE <<"**", tool_call.name, " Error**: ">> \o result.text

\* C23: the display text of every tool result is "**name**: output" for a
\* call that succeeded and "**name Error**: error" for one that failed,
\* with the name of the requested tool, also when the tool raised or was
\* not found.
C23_DisplayText ==
    \A i \in 1..Len(tool_results) :
        (mode \in {"sequential", "parallel"} /\ i <= Len(batch)) =>
            tool_results[i] = DisplayText(batch[i], outcomes[i])

\* C24: under the sequential policy, or with a single call, the calls of a
\* batch run one at a time in input order: a call is started only when
\* every call before it has completed, at most one is in flight, and the
\* results come in input order; the parallel operation is entered only
\* when parallel mode is on and the batch has more than one call.
C24_SequentialOneAtATime ==
    /\ mode = "sequential" =>
          /\ ~config.parallel_execution \/ Len(batch) = 1
          /\ Cardinality(InFlight) <= 1
          /\ \A i, j \in 1..Len(batch) :
                (i < j /\ status[j] # "pending") => status[i] = "done"
          /\ finished = [k \in 1..Len(finished) |-> k]
          /\ Len(tool_messages) = Len(finished)
          /\ \A k \in 1..Len(tool_messages) :
                /\ tool_messages[k].tool_call_id = batch[k].id
                /\ tool_calls_made[k].tool_name = batch[k].name
    /\ mode = "parallel" => config.parallel_execution /\ Len(batch) > 1
    /\ (mode \in {"sequential", "parallel"}
          /\ (~config.parallel_execution \/ Len(batch) = 1))
             => mode = "sequential"

\* C24 witness: a batch of three calls was executed under the sequential
\* policy, and the second call failed.
C24_Witness ==
    /\ mode = "sequential"
    /\ ~config.parallel_execution
    /\ Len(batch) = 3
    /\ pc = "returned"
    /\ finished = <<1, 2, 3>>
    /\ outcomes[2].kind = "raise"

\* The turn list a round works on: the provider loop's working messages,
\* or the agent's history.
RoundTurns == IF mode = "provider" THEN working_messages ELSE history

\* C25: within a round the assistant turn that carries the tool calls is in
\* the conversation before any of its calls starts, and it stands before
\* every tool turn that answers one of its calls.
C25_AssistantTurnFirst ==
    (batch # <<>> /\ mode \in {"sequential", "parallel", "provider"}) =>
        \E p \in 1..Len(RoundTurns) :
            /\ RoundTurns[p].role = "assistant"
            /\ RoundTurns[p].tool_calls = batch
            /\ \A k \in 1..Len(RoundTurns) :
                  (/\ RoundTurns[k].role = "tool"
                   /\ \E i \in 1..Len(batch) :
                         RoundTurns[k].tool_call_id = batch[i].id)
                     => k > p

\* C25 witness: the assistant turn of a batch of two calls is the last turn
\* of the history while none of the calls has started.
C25_Witness ==
    /\ pc = "gather"
    /\ Len(batch) = 2
    /\ \A i \in 1..Len(batch) : status[i] = "pending"
    /\ history[Len(history)] = AIMessage(last_model.content, batch)


\* C26: loading what a request has just saved gives back the saved turns:
\* same length, roles, content, tool_calls on assistant turns and
\* tool_call_id on tool turns; a conversation never saved loads as empty.
C26_SaveLoadRoundTrip ==
    /\ pc = "returned" => LoadConversation(stored) = history
    /\ stored = <<>> => LoadConversation(stored) = <<>>


\* A model call of the provider loop returns a response.
ModelCallStep == pc = "bedrock_call" /\ pc' # "raised"

RECURSIVE SinceLastUser(_)
SinceLastUser(messages) ==
    IF messages = <<>> \/ messages[Len(messages)].role = "user" THEN <<>>
    ELSE Append(SinceLastUser(SubSeq(messages, 1, Len(messages) - 1)),
                messages[Len(messages)])

\* C28: when ainvoke has returned, the last turn of the history is an
\* assistant turn whose content is the returned response, and the response
\* was recorded once for the request, whoever managed the history and also
\* at the iteration cap.
C28_FinalResponseRecorded ==
    pc = "returned" =>
        /\ history[Len(history)].role = "assistant"
        /\ history[Len(history)].content = response
        /\ Cardinality({k \in 1..Len(SinceLastUser(history)) :
                           /\ SinceLastUser(history)[k].role = "assistant"
                           /\ SinceLastUser(history)[k].tool_calls = <<>>
                           /\ SinceLastUser(history)[k].content = response})
              = 1


\* The provider loop is running.
InProviderLoop == pc \in {"bedrock_call", "bedrock_tools"}

\* C29: the provider loop works on a copy of the agent's history: while it
\* runs, and when it aborts with an error, the history ends with the user
\* turn of the request and holds none of the loop's assistant or tool
\* turns; the history changes only in the step in which the loop returns,
\* and then it becomes the loop's turns.
C29_LoopWorksOnCopy ==
    /\ [](InProviderLoop =>
             /\ history[Len(history)].role = "user"
             /\ Len(working_messages) >= Len(history)
             /\ SubSeq(working_messages, 1, Len(history)) = history)
    /\ []((pc = "raised" /\ config.provider = "bedrock") =>
             history[Len(history)].role = "user")
    /\ [][InProviderLoop =>
             IF pc' = "returned"
             THEN managed' /\ history' = working_messages'
             ELSE history' = history]_vars

\* C29 witness: in its second round the loop holds an assistant turn and
\* tool turns that the agent's history does not have.
C29_Witness ==
    /\ pc = "bedrock_tools"
    /\ iteration = 2
    /\ Len(working_messages) >= Len(history) + 3
    /\ history[Len(history)].role = "user"
    /\ working_messages[Len(history) + 1].role = "assistant"


\* The tool events of a queue stand in publish order, are newer than what
\* the subscriber has seen, and were published for the stream's
\* conversation; a kill event is the last of its queue.
InPublishOrder(queue, conversation_id, seen) ==
    \A k \in 1..Len(queue) :
        IF queue[k].type = "conversation_killed" THEN k = Len(queue)
        ELSE /\ queue[k].conversation_id = conversation_id
             /\ seen < queue[k].n
             /\ queue[k].n <= published[conversation_id]
             /\ \A j \in 1..(k - 1) : queue[j].n < queue[k].n

\* C30: what the subscriber of a stream receives, keepalives aside, is a
\* subsequence of what was published to the stream, in publish order: an
\* event it receives is the oldest of the queue and newer than every event
\* it has received, what waits in the queue is newer still, and an event
\* leaves the queue only by being received, from the front of a full
\* queue when a new event comes in, or with the stream when it is freed.
C30_DeliveredInPublishOrder ==
    /\ [](\A g \in SubscriberIds :
             subscribers[g].stream # None =>
                 LET s == streams[subscribers[g].stream]
                 IN  /\ subscribers[g].seen <= published[s.conversation_id]
                     /\ InPublishOrder(s.queue, s.conversation_id,
                                       subscribers[g].seen))
    /\ [][\A g \in SubscriberIds :
             (/\ subscribers[g].stream # None
              /\ subscribers'[g].stream = subscribers[g].stream
              /\ subscribers'[g].seen # subscribers[g].seen) =>
                 LET q == streams[subscribers[g].stream].queue
                 IN  /\ q # <<>>
                     /\ subscribers'[g].seen = q[1].n
                     /\ subscribers'[g].seen > subscribers[g].seen]_vars
    /\ [][\A s \in StreamIds :
             (streams[s].exists /\ streams'[s].exists
                /\ streams[s].queue # <<>>) =>
                 LET q == streams[s].queue
                     after == streams'[s].queue
                 IN  \/ /\ Len(after) >= Len(q)
                        /\ SubSeq(after, 1, Len(q)) = q
                     \/ /\ Len(q) = queue_maxsize
                        /\ Len(after) = queue_maxsize
                        /\ SubSeq(after, 1, Len(q) - 1) = Tail(q)
                     \/ /\ after = Tail(q)
                        /\ \E g \in SubscriberIds :
                              /\ subscribers[g].stream = s
                              /\ \/ subscribers'[g].seen = q[1].n
                                 \/ subscribers'[g].last = q[1].type]_vars

\* C30 witness: eleven events were published for the conversation; the
\* subscriber has received the second, and the third to the eleventh wait
\* in the queue of its stream.
C30_Witness ==
    \E g \in SubscriberIds :
        /\ subscribers[g].stream # None
        /\ subscribers[g].seen = 2
        /\ published[streams[subscribers[g].stream].conversation_id] = 11
        /\ Len(streams[subscribers[g].stream].queue) = 9
        /\ streams[subscribers[g].stream].queue[1].n = 3
        /\ streams[subscribers[g].stream].queue[9].n = 11


\* C31: a subscriber that is attached to a stream when the stream is killed
\* is given the conversation_killed event before its sequence of events
\* ends (unless the client itself goes away first).
C31_KillReachesSubscriber ==
    [][\A g \in SubscriberIds :
          (/\ subscribers[g].stream # None
           /\ streams[subscribers[g].stream].killed
           /\ subscribers'[g].stream = None
           /\ subscribers'[g].last # "cancelled") =>
              subscribers'[g].last = "conversation_killed"]_vars


\* A step in which a generator starts for a client.
SubscribeStep(g) ==
    subscribers[g].stream = None /\ subscribers'[g].stream # None

\* C32: an inactive stream never becomes active again.  A subscription to
\* a conversation gets the registered stream when that one is active, and
\* otherwise a fresh active stream that takes its place in the registry.
\* Every registry entry is a stream of its conversation, and a queue takes
\* in an event only while its stream is active and registered, so what is
\* published after a replacement reaches the replacement only.
C32_ActiveFlagMonotone ==
    /\ [][\A s \in StreamIds :
             (streams[s].exists /\ ~streams[s].is_active)
                => ~streams'[s].is_active]_vars
    /\ [][\A g \in SubscriberIds :
             SubscribeStep(g) =>
                LET s == subscribers'[g].stream
                    c == streams'[s].conversation_id
                    old == active_streams[c]
                IN  /\ active_streams'[c] = s
                    /\ streams'[s].is_active
                    /\ IF old # None /\ streams[old].is_active
                       THEN s = old /\ streams'[s] = streams[s]
                       ELSE /\ s # old
                            /\ ~streams[s].exists
                            /\ streams'[s].queue = <<>>]_vars
    /\ [](\A c \in ConversationIds :
             active_streams[c] # None =>
                /\ streams[active_streams[c]].exists
                /\ streams[active_streams[c]].conversation_id = c)
    /\ [][\A s \in StreamIds :
             (/\ streams[s].exists
              /\ streams'[s].exists
              /\ streams'[s].queue # streams[s].queue
              /\ streams[s].queue # <<>> =>
                    streams'[s].queue # Tail(streams[s].queue))
                => /\ streams[s].is_active
                   /\ active_streams[streams[s].conversation_id] = s]_vars

\* C32 witness: a conversation has an inactive stream that a subscriber
\* still holds and an active stream in the registry that replaced it; the
\* event published after the replacement is in the queue of the active one
\* only.
C32_Witness ==
    \E c \in ConversationIds : \E s, t \in StreamIds :
        /\ s # t
        /\ active_streams[c] = s
        /\ streams[s].is_active
        /\ streams[s].queue = <<ToolEvent(c, 1)>>
        /\ streams[t].exists
        /\ streams[t].conversation_id = c
        /\ ~streams[t].is_active
        /\ \A k \in 1..Len(streams[t].queue) :
              streams[t].queue[k] # ToolEvent(c, 1)


\* A step in which the generator of a client ends.
EndStep(g) == subscribers[g].stream # None /\ subscribers'[g].stream = None

\* C33: when the sequence of a subscriber ends, whatever ended it, its
\* stream is inactive afterwards; another subscriber of the same stream
\* then holds an inactive stream, and the next thing its generator does is
\* its last: its sequence ends as well.
C33_EndDeactivatesStream ==
    /\ [][\A g \in SubscriberIds :
             EndStep(g) =>
                LET s == subscribers[g].stream
                IN  /\ ~streams'[s].is_active
                    /\ \A h \in SubscriberIds :
                          (h # g /\ subscribers[h].stream = s) =>
                              /\ streams'[s].exists
                              /\ subscribers'[h].stream = s]_vars
    /\ [][\A h \in SubscriberIds :
             (/\ subscribers[h].stream # None
              /\ ~streams[subscribers[h].stream].is_active
              /\ subscribers'[h] # subscribers[h])
                => subscribers'[h].stream = None]_vars

\* C33 witness: of two subscribers of one stream one has gone away; the
\* other still holds the stream, which is inactive without having been
\* killed, swept or timed out.
C33_Witness ==
    \E g, h \in SubscriberIds :
        /\ subscribers[g] = NoSubscriber("cancelled")
        /\ subscribers[h].stream # None
        /\ streams[subscribers[h].stream].exists
        /\ ~streams[subscribers[h].stream].is_active
        /\ ~streams[subscribers[h].stream].killed
        /\ now = 0


-----------------------------------------------------------------------------
(* Chat requests of one conversation: POST /chat (chat_with_agent) *)

\* ChatMessage.message of a request, and what the model answers to it.
ChatQuestion(r) == <<"question of the ", r, " request">>
ChatAnswer(r) == <<"answer to the ", r, " request">>

\* chat_with_agent up to the model call: get_agent makes a fresh agent for
\* the request, its history is loaded from the file of the conversation,
\* and ainvoke appends the system prompt and the user turn and then awaits
\* the model.
ChatStart(r) ==
    /\ requests[r].pc = "idle"
    /\ requests' =
          [requests EXCEPT
             ![r] = [pc |-> "await",
                     conversation_history |->
                         WithPromptAndUser(LoadConversation(stored),
                                           config.system_prompt,
                                           ChatQuestion(r))]]
    /\ UNCHANGED <<agentVars, routerVars>>

\* The model call of a request returns: ainvoke appends the assistant turn
\* and saves the agent's history to the file of the conversation.
ChatReturn(r) ==
    /\ requests[r].pc = "await"
    /\ LET turns == Append(requests[r].conversation_history,
                           AIMessage(ChatAnswer(r), <<>>))
       IN  /\ requests' =
                 [requests EXCEPT
                    ![r] = [pc |-> "done", conversation_history |-> turns]]
           /\ stored' = SaveConversation(turns)
    /\ UNCHANGED <<routerVars, config, history, pc, invokes, calls,
                   last_model, response, managed, tool_calls_made, batch,
                   status, outcomes, results, tool_messages, tool_results,
                   working_messages, iteration, mode, finished, events,
                   publishing>>

\* The model call of a request raises: the handler answers with status 500
\* and nothing is saved.
ChatFails(r) ==
    /\ requests[r].pc = "await"
    /\ requests' = [requests EXCEPT ![r].pc = "failed"]
    /\ UNCHANGED <<agentVars, routerVars>>

\* An agent without tools, as the chat handler makes one per request.
ChatInit ==
    /\ Init
    /\ config.provider = "langchain"
    /\ ~config.parallel_execution
    /\ config.tools = <<>>

ChatNext ==
    \/ \E r \in ChatIds : ChatStart(r)
    \/ \E r \in ChatIds : ChatReturn(r)
    \/ \E r \in ChatIds : ChatFails(r)

ChatSpec == ChatInit /\ [][ChatNext]_vars

\* A turn is among the turns of a conversation.
HasTurn(messages, turn) == \E k \in 1..Len(messages) : messages[k] = turn

\* C34: when the requests for a conversation have been handled, the saved
\* conversation holds the user turn and the final assistant turn of every
\* request that was answered, also when the requests were handled at the
\* same time.
C34_NoLostUpdate ==
    (\A r \in ChatIds : requests[r].pc # "await") =>
        \A r \in ChatIds :
            requests[r].pc = "done" =>
                /\ HasTurn(LoadConversation(stored),
                           HumanMessage(ChatQuestion(r)))
                /\ HasTurn(LoadConversation(stored),
                           AIMessage(ChatAnswer(r), <<>>))


\* C35: a pass of the sweep leaves active every stream that is active and
\* had its last activity within the 300 s before the pass; a stream the
\* pass deactivates had been idle for more than 300 s.
C35_SweepSparesLiveStreams ==
    [][SweepStep =>
          \A s \in StreamIds :
              (streams[s].exists /\ streams[s].is_active) =>
                  /\ now - streams[s].last_activity <= idle_threshold
                        => streams'[s].is_active
                  /\ ~streams'[s].is_active
                        => now - streams[s].last_activity > idle_threshold]_vars

\* C35 witness: a pass has just been made; a stream that was created before
\* it and was active within the last 300 s is still active.
C35_Witness ==
    \E s \in StreamIds :
        /\ next_sweep = now + sweep_interval
        /\ streams[s].exists
        /\ streams[s].is_active
        /\ streams[s].last_activity < now
        /\ now - streams[s].last_activity <= idle_threshold


\* C36: at most one sweep task is alive at any time: a task is created
\* only when there is none, in the step that creates a stream, however
\* many streams are created; the task exists exactly when a pass is
\* scheduled.
C36_OneSweepTask ==
    /\ [](cleanup_tasks <= 1)
    /\ []((cleanup_tasks = 0) <=> (next_sweep = 0))
    /\ [][cleanup_tasks' # cleanup_tasks =>
             /\ cleanup_tasks = 0
             /\ cleanup_tasks' = 1
             /\ \E s \in StreamIds : ~streams[s].exists /\ streams'[s].exists]_vars

\* C36 witness: two streams have been created and exist, and one sweep
\* task is alive.
C36_Witness ==
    /\ cleanup_tasks = 1
    /\ \A s \in StreamIds : streams[s].exists
    /\ \E s, t \in StreamIds :
          streams[s].conversation_id # streams[t].conversation_id

=============================================================================
